---- MODULE Spec2Model ----
(***************************************************************************)
(* Model of rs-wgpu-learn.                                                 *)
(*                                                                         *)
(*   lib.rs   WgpuApp: new (instance -> surface -> adapter -> device/queue *)
(*            -> surface configuration -> pipeline), render (one frame)    *)
(*            and resize.                                                  *)
(*   main.rs  run: the compute job (adapter/device acquisition, storage    *)
(*            and result buffers, one compute pass, copy, submit, map,     *)
(*            poll, read, unmap).                                          *)
(*                                                                         *)
(* The two are separate entry points, so a behaviour runs one of them: the *)
(* other one's position is "off" and its state never changes.              *)
(***************************************************************************)
EXTENDS Integers, Sequences, FiniteSets, TLC

VARIABLES
    \* ---- lib.rs: WgpuApp ----
    appPc,      \* position in WgpuApp::new / render, or "Idle" between calls
    window,     \* window.inner_size(): [width, height]
    instance,   \* wgpu::Instance created
    surface,    \* Self.surface: whether created, and the configuration applied
    adapter,    \* adapter obtained in new, or "None"
    device,     \* Self.device, or "None" before it exists
    queue,      \* Self.queue, or "None" before it exists
    config,     \* Self.config
    pipeline,   \* Self.pipeline
    frame,      \* the locals of render: output, view, encoder, command buffer
    requests,   \* how many adapter / device requests were made
    call,       \* the call in progress or last finished and what it did
                \* (again: a resize repeating the resize just before it)
    history,    \* whether some render failed / some render completed so far
    \* ---- main.rs: run ----
    runPc,      \* position in run
    gpu,        \* instance, adapter, device, queue of run and the requests made
    input,      \* the input vector (f32 values)
    storage_buffer,  \* the storage buffer: size, bytes, usage
    result_buffer,   \* the result buffer: size, bytes, usage
    compute_pipeline, \* shader, bind group and pipeline of the compute pass
    pendingWrites,   \* writes staged by queue.write_buffer, flushed by submit
    deviceQueue,     \* work submitted to the device and not yet executed
    encode,          \* commands recorded in the command encoder
    mapState,        \* result_buffer mapping: Unmapped, Pending, Mapped, Failed
    callback,        \* what the map_async callback was called with, or "none"
    result,          \* the f32 values read back
    invoked,         \* workgroups of the running dispatch already executed
    processed,       \* per element, how many kernel invocations touched it
    hostLog,         \* the queue/device/buffer calls run has made, in order
    runResult        \* how run ended: "running", "Ok", an error, or "panic"

appVars == <<appPc, window, instance, surface, adapter, device, queue, config,
             pipeline, frame, requests, call, history>>
runVars == <<runPc, gpu, input, storage_buffer, result_buffer,
             compute_pipeline, pendingWrites, deviceQueue, encode, mapState,
             callback, result, invoked, processed, hostLog, runResult>>
vars == <<appVars, runVars>>

----------------------------------------------------------------------------
(* Bounds *)

\* window and resize sizes are drawn from 0..MaxSize and one large value
MaxSize == 2
\* generated input vectors have 1..MaxLen elements with values 1..MaxVal
MaxLen == 3
MaxVal == 3

\* the largest integer TLC represents; it stands for the large u32 sizes
LargeSize == 2^30 - 1 + 2^30

Sizes == (0..MaxSize) \cup {LargeSize}

----------------------------------------------------------------------------
(* lib.rs: WgpuApp *)

\* u32::max(self, 1)
Max(a, b) == IF a >= b THEN a ELSE b

ClampAbsent(x) == x
Clamp(x) == Max(x, 1)

\* wgpu::SurfaceError, the Err of Surface::get_current_texture
SurfaceErrors == {"Timeout", "Outdated", "Lost", "OutOfMemory"}

\* what the adapter offers to get_default_config
Formats == {"Bgra8UnormSrgb", "Rgba8UnormSrgb"}
PresentModes == {"Fifo"}

NoConfig == [width |-> 0, height |-> 0, format |-> "None",
             present_mode |-> "None"]

NoSurface == [created |-> FALSE, configured |-> NoConfig]

NoPipeline == [vertex |-> "None", fragment |-> "None", format |-> "None",
               buffers |-> <<>>]

NoFrame == [output |-> "None", view |-> "None", encoder |-> <<>>,
            command_buffer |-> <<>>]

NoCall == [op |-> "none", size |-> <<0, 0>>, acquires |-> 0, configures |-> 0,
           submits |-> <<>>, presents |-> 0, trace |-> <<>>,
           again |-> FALSE, result |-> "none"]

StartCall(op, size) == [NoCall EXCEPT !.op = op, !.size = size,
                                      !.result = "pending"]

InitApp ==
    /\ appPc = "new_instance"
    /\ window \in [width : Sizes, height : Sizes]
    /\ instance = FALSE
    /\ surface = NoSurface
    /\ adapter = "None"
    /\ device = "None"
    /\ queue = "None"
    /\ config = NoConfig
    /\ pipeline = NoPipeline
    /\ frame = NoFrame
    /\ requests = [adapter |-> 0, device |-> 0]
    /\ call = StartCall("new", <<0, 0>>)
    /\ history = [failed |-> FALSE, completed |-> FALSE]

OffApp ==
    /\ appPc = "off"
    /\ window = [width |-> 0, height |-> 0]
    /\ instance = FALSE
    /\ surface = NoSurface
    /\ adapter = "None"
    /\ device = "None"
    /\ queue = "None"
    /\ config = NoConfig
    /\ pipeline = NoPipeline
    /\ frame = NoFrame
    /\ requests = [adapter |-> 0, device |-> 0]
    /\ call = NoCall
    /\ history = [failed |-> FALSE, completed |-> FALSE]

\* `?` / unwrap in new: the constructor ends without a WgpuApp
NewFails(why) ==
    /\ appPc' = "new_failed"
    /\ call' = [call EXCEPT !.result = why]

\* lib.rs:20
NewInstance ==
    /\ appPc = "new_instance"
    /\ instance' = TRUE
    /\ appPc' = "new_surface"
    /\ UNCHANGED <<window, surface, adapter, device, queue, config, pipeline,
                   frame, requests, call, history>>
    /\ UNCHANGED runVars

\* lib.rs:23
NewSurface ==
    /\ appPc = "new_surface"
    /\ \/ /\ surface' = [surface EXCEPT !.created = TRUE]
          /\ appPc' = "new_adapter"
          /\ UNCHANGED call
       \/ /\ NewFails("CreateSurfaceError")
          /\ UNCHANGED surface
    /\ UNCHANGED <<window, instance, adapter, device, queue, config, pipeline,
                   frame, requests, history>>
    /\ UNCHANGED runVars

\* lib.rs:26-33
NewAdapter ==
    /\ appPc = "new_adapter"
    /\ requests' = [requests EXCEPT !.adapter = @ + 1]
    /\ \/ /\ adapter' = "Adapter"
          /\ appPc' = "new_device"
          /\ UNCHANGED call
       \/ /\ NewFails("No adapter found")
          /\ UNCHANGED adapter
    /\ UNCHANGED <<window, instance, surface, device, queue, config, pipeline,
                   frame, history>>
    /\ UNCHANGED runVars

\* lib.rs:36-46
NewDevice ==
    /\ appPc = "new_device"
    /\ requests' = [requests EXCEPT !.device = @ + 1]
    /\ \/ /\ device' = "Device"
          /\ queue' = "Queue"
          /\ appPc' = "new_config"
          /\ UNCHANGED call
       \/ /\ NewFails("RequestDeviceError")
          /\ UNCHANGED <<device, queue>>
    /\ UNCHANGED <<window, instance, surface, adapter, config, pipeline,
                   frame, history>>
    /\ UNCHANGED runVars

\* lib.rs:49-56: get_default_config(adapter, width.max(1), height.max(1)),
\* unwrap, surface.configure
NewConfig ==
    /\ appPc = "new_config"
    /\ \/ \E f \in Formats, m \in PresentModes :
            /\ config' = [width |-> Clamp(window.width),
                          height |-> Clamp(window.height),
                          format |-> f, present_mode |-> m]
            /\ surface' = [surface EXCEPT !.configured = config']
            /\ call' = [call EXCEPT !.configures = @ + 1]
            /\ appPc' = "new_pipeline"
       \/ /\ NewFails("panic")
          /\ UNCHANGED <<config, surface>>
    /\ UNCHANGED <<window, instance, adapter, device, queue, pipeline, frame,
                   requests, history>>
    /\ UNCHANGED runVars

\* lib.rs:59-95
NewPipeline ==
    /\ appPc = "new_pipeline"
    /\ pipeline' = [vertex |-> "vs", fragment |-> "fs",
                    format |-> config.format, buffers |-> <<>>]
    /\ call' = [call EXCEPT !.result = "Ok"]
    /\ appPc' = "Idle"
    /\ UNCHANGED <<window, instance, surface, adapter, device, queue, config,
                   frame, requests, history>>
    /\ UNCHANGED runVars

\* lib.rs:148-153
WrappingAdd(a, b) == IF a > LargeSize - b THEN a - (LargeSize - b) - 1
                                           ELSE a + b

ResizedConfigAdd(cfg, size) ==
    [cfg EXCEPT !.width = WrappingAdd(@, Clamp(size[1])),
                !.height = WrappingAdd(@, Clamp(size[2]))]

ResizedConfigDefaults(cfg, size) ==
    [width |-> Clamp(size[1]), height |-> Clamp(size[2]),
     format |-> "Bgra8UnormSrgb", present_mode |-> "Fifo"]

ResizedConfig(cfg, size) ==
    [cfg EXCEPT !.width = Clamp(size[1]), !.height = Clamp(size[2])]

resizeWithoutConfigure(size) ==
    /\ appPc = "Idle"
    /\ config' = ResizedConfig(config, size)
    /\ call' = [StartCall("resize", size) EXCEPT
                  !.again = (call.op = "resize" /\ call.size = size),
                  !.result = "Ok"]
    /\ UNCHANGED <<appPc, window, instance, surface, adapter, device, queue,
                   pipeline, frame, requests, history>>
    /\ UNCHANGED runVars

resize(size) ==
    /\ appPc = "Idle"
    /\ config' = ResizedConfig(config, size)
    /\ surface' = [surface EXCEPT !.configured = config']
    /\ call' = [StartCall("resize", size) EXCEPT
                  !.configures = 1,
                  !.again = (call.op = "resize" /\ call.size = size),
                  !.result = "Ok"]
    /\ UNCHANGED <<appPc, window, instance, adapter, device, queue, pipeline,
                   frame, requests, history>>
    /\ UNCHANGED runVars

\* lib.rs:101: get_current_texture()?
RenderAcquireStuck(outcome) ==
    /\ appPc = "Idle"
    /\ IF outcome = "Ok"
         THEN /\ frame' = [NoFrame EXCEPT !.output = "SurfaceTexture"]
              /\ appPc' = "Acquired"
              /\ call' = [StartCall("render", <<0, 0>>) EXCEPT
                            !.acquires = 1, !.trace = <<"Idle", "Acquired">>]
              /\ UNCHANGED history
         ELSE /\ frame' = NoFrame
              /\ appPc' = "Failed"
              /\ call' = [StartCall("render", <<0, 0>>) EXCEPT
                            !.acquires = 1, !.trace = <<"Idle">>,
                            !.result = outcome]
              /\ history' = [history EXCEPT !.failed = TRUE]
    /\ UNCHANGED <<window, instance, surface, adapter, device, queue, config,
                   pipeline, requests>>
    /\ UNCHANGED runVars

RenderAcquireRetry(outcome) ==
    /\ appPc = "Idle"
    /\ IF outcome = "Ok"
         THEN /\ frame' = [NoFrame EXCEPT !.output = "SurfaceTexture"]
              /\ appPc' = "Acquired"
              /\ call' = [StartCall("render", <<0, 0>>) EXCEPT
                            !.acquires = 1, !.trace = <<"Idle", "Acquired">>]
              /\ UNCHANGED <<history, surface>>
         ELSE /\ frame' = NoFrame
              /\ appPc' = "Idle"
              /\ surface' = [surface EXCEPT !.configured = config]
              /\ call' = [StartCall("render", <<0, 0>>) EXCEPT
                            !.acquires = 2, !.configures = 1,
                            !.trace = <<"Idle">>, !.result = outcome]
              /\ history' = [history EXCEPT !.failed = TRUE]
    /\ UNCHANGED <<window, instance, adapter, device, queue, config,
                   pipeline, requests>>
    /\ UNCHANGED runVars

RenderAcquire(outcome) ==
    /\ appPc = "Idle"
    /\ IF outcome = "Ok"
         THEN /\ frame' = [NoFrame EXCEPT !.output = "SurfaceTexture"]
              /\ appPc' = "Acquired"
              /\ call' = [StartCall("render", <<0, 0>>) EXCEPT
                            !.acquires = 1, !.trace = <<"Idle", "Acquired">>]
              /\ UNCHANGED history
         ELSE /\ frame' = NoFrame
              /\ appPc' = "Idle"
              /\ call' = [StartCall("render", <<0, 0>>) EXCEPT
                            !.acquires = 1, !.trace = <<"Idle">>,
                            !.result = outcome]
              /\ history' = [history EXCEPT !.failed = TRUE]
    /\ UNCHANGED <<window, instance, surface, adapter, device, queue, config,
                   pipeline, requests>>
    /\ UNCHANGED runVars

\* lib.rs:115-134: the commands recorded into the encoder
RenderPassTwoDraws(view, pipe) ==
    << [cmd |-> "begin_render_pass", view |-> view, load |-> "Clear",
        color |-> "BLACK", store |-> "Store"],
       [cmd |-> "set_pipeline", pipeline |-> pipe],
       [cmd |-> "draw", vertices |-> <<0, 3>>, instances |-> <<0, 1>>],
       [cmd |-> "draw", vertices |-> <<0, 3>>, instances |-> <<0, 1>>],
       [cmd |-> "end_render_pass"] >>

RenderPass(view, pipe) ==
    << [cmd |-> "begin_render_pass", view |-> view, load |-> "Clear",
        color |-> "BLACK", store |-> "Store"],
       [cmd |-> "set_pipeline", pipeline |-> pipe],
       [cmd |-> "draw", vertices |-> <<0, 3>>, instances |-> <<0, 1>>],
       [cmd |-> "end_render_pass"] >>

\* lib.rs:104-135
RenderEncode ==
    /\ appPc = "Acquired"
    /\ frame' = [frame EXCEPT !.view = "TextureView",
                              !.encoder = RenderPass("TextureView", pipeline)]
    /\ appPc' = "Encoding"
    /\ call' = [call EXCEPT !.trace = Append(@, "Encoding")]
    /\ UNCHANGED <<window, instance, surface, adapter, device, queue, config,
                   pipeline, requests, history>>
    /\ UNCHANGED runVars

\* lib.rs:138-139
RenderSubmit ==
    /\ appPc = "Encoding"
    /\ frame' = [frame EXCEPT !.command_buffer = frame.encoder,
                              !.encoder = <<>>]
    /\ call' = [call EXCEPT !.submits = Append(@, frame.encoder),
                            !.trace = Append(@, "Submitted")]
    /\ appPc' = "Submitted"
    /\ UNCHANGED <<window, instance, surface, adapter, device, queue, config,
                   pipeline, requests, history>>
    /\ UNCHANGED runVars

\* lib.rs:142
RenderPresentEarly ==
    /\ appPc \in {"Encoding", "Submitted"}
    /\ frame' = [frame EXCEPT !.output = "Presented"]
    /\ call' = [call EXCEPT !.presents = @ + 1,
                            !.trace = Append(@, "Presented")]
    /\ appPc' = "Presented"
    /\ UNCHANGED <<window, instance, surface, adapter, device, queue, config,
                   pipeline, requests, history>>
    /\ UNCHANGED runVars

RenderPresent ==
    /\ appPc = "Submitted"
    /\ frame' = [frame EXCEPT !.output = "Presented"]
    /\ call' = [call EXCEPT !.presents = @ + 1,
                            !.trace = Append(@, "Presented")]
    /\ appPc' = "Presented"
    /\ UNCHANGED <<window, instance, surface, adapter, device, queue, config,
                   pipeline, requests, history>>
    /\ UNCHANGED runVars

\* lib.rs:144-145: Ok(()); the locals of the frame are dropped
RenderReturn ==
    /\ appPc = "Presented"
    /\ frame' = NoFrame
    /\ call' = [call EXCEPT !.result = "Ok"]
    /\ history' = [history EXCEPT !.completed = TRUE]
    /\ appPc' = "Idle"
    /\ UNCHANGED <<window, instance, surface, adapter, device, queue, config,
                   pipeline, requests>>
    /\ UNCHANGED runVars

NextApp ==
    \/ NewInstance
    \/ NewSurface
    \/ NewAdapter
    \/ NewDevice
    \/ NewConfig
    \/ NewPipeline
    \/ \E w \in Sizes, h \in Sizes : resize(<<w, h>>)
    \/ \E outcome \in {"Ok"} \cup SurfaceErrors : RenderAcquire(outcome)
    \/ RenderEncode
    \/ RenderSubmit
    \/ RenderPresent
    \/ RenderReturn

----------------------------------------------------------------------------
(* main.rs: run *)

\* main.rs:43
SourceInput == <<1, 2, 3, 4>>

\* the vectors the job is checked on: the one of main.rs and all short ones
Inputs == {SourceInput} \cup
          UNION {[1..n -> 1..MaxVal] : n \in 1..MaxLen}

\* std::mem::size_of::<f32>(), main.rs:48
SizeOfF32 == 4

RECURSIVE Log2Floor(_)
Log2Floor(n) == IF n < 2 THEN 0 ELSE 1 + Log2Floor(n \div 2)

\* the IEEE-754 binary32 bit pattern of a non-negative whole number below 2^24
F32Bits(v) ==
    IF v = 0 THEN 0
    ELSE LET e == Log2Floor(v)
         IN  (127 + e) * 2^23 + (v - 2^e) * 2^(23 - e)

\* the whole number a binary32 bit pattern stands for (fraction truncated)
F32Value(bits) ==
    IF bits = 0 THEN 0
    ELSE LET e == (bits \div 2^23) - 127
             m == bits % 2^23
         IN  2^e + (m \div 2^(23 - e))

\* little-endian bytes of a 32-bit word and back
WordBytes(w) == [k \in 1..SizeOfF32 |-> (w \div 256^(k - 1)) % 256]
BytesWord(b) == b[1] + 256 * b[2] + 65536 * b[3] + 16777216 * b[4]

\* bytemuck::cast_slice::<f32, u8>, main.rs:54
CastToBytes(vals) ==
    [i \in 1..(SizeOfF32 * Len(vals)) |->
        WordBytes(F32Bits(vals[((i - 1) \div SizeOfF32) + 1]))
            [((i - 1) % SizeOfF32) + 1]]

\* bytemuck::cast_slice::<u8, f32>, main.rs:143
CastToF32(bytes) ==
    [i \in 1..(Len(bytes) \div SizeOfF32) |->
        F32Value(BytesWord(SubSeq(bytes, SizeOfF32 * (i - 1) + 1,
                                  SizeOfF32 * i)))]

Zeros(n) == [i \in 1..n |-> 0]

NoBuffer == [size |-> 0, data |-> <<>>, usage |-> {}]

NoGpu == [instance |-> FALSE, adapter |-> "None", device |-> "None",
          queue |-> "None", adapterRequests |-> 0, deviceRequests |-> 0]

NoComputePipeline == [entry_point |-> "None", binding0 |-> "None"]

InitRun ==
    /\ runPc = "instance"
    /\ gpu = NoGpu
    /\ input \in Inputs
    /\ storage_buffer = NoBuffer
    /\ result_buffer = NoBuffer
    /\ compute_pipeline = NoComputePipeline
    /\ pendingWrites = <<>>
    /\ deviceQueue = <<>>
    /\ encode = <<>>
    /\ mapState = "Unmapped"
    /\ callback = "none"
    /\ result = <<>>
    /\ invoked = {}
    /\ processed = [i \in 1..Len(input) |-> 0]
    /\ hostLog = <<>>
    /\ runResult = "running"

OffRun ==
    /\ runPc = "off"
    /\ gpu = NoGpu
    /\ input = <<>>
    /\ storage_buffer = NoBuffer
    /\ result_buffer = NoBuffer
    /\ compute_pipeline = NoComputePipeline
    /\ pendingWrites = <<>>
    /\ deviceQueue = <<>>
    /\ encode = <<>>
    /\ mapState = "Unmapped"
    /\ callback = "none"
    /\ result = <<>>
    /\ invoked = {}
    /\ processed = <<>>
    /\ hostLog = <<>>
    /\ runResult = "running"

\* `?` in run: the error is returned to main
RunFails(why) ==
    /\ runPc' = "failed"
    /\ runResult' = why

\* main.rs:17-20
RunInstance ==
    /\ runPc = "instance"
    /\ gpu' = [gpu EXCEPT !.instance = TRUE]
    /\ runPc' = "adapter"
    /\ UNCHANGED <<input, storage_buffer, result_buffer, compute_pipeline,
                   pendingWrites, deviceQueue, encode, mapState, callback,
                   result, invoked, processed, hostLog, runResult>>
    /\ UNCHANGED appVars

RunAdapterRetries ==
    /\ runPc = "adapter"
    /\ \/ /\ gpu' = [gpu EXCEPT !.adapter = "Adapter",
                                !.adapterRequests = @ + 1]
          /\ runPc' = "device"
          /\ UNCHANGED runResult
       \/ /\ gpu' = [gpu EXCEPT !.adapterRequests = @ + 2]
          /\ RunFails("No suitable adapter found!")
    /\ UNCHANGED <<input, storage_buffer, result_buffer, compute_pipeline,
                   pendingWrites, deviceQueue, encode, mapState, callback,
                   result, invoked, processed, hostLog>>
    /\ UNCHANGED appVars

\* main.rs:23-29
RunAdapter ==
    /\ runPc = "adapter"
    /\ \/ /\ gpu' = [gpu EXCEPT !.adapter = "Adapter",
                                !.adapterRequests = @ + 1]
          /\ runPc' = "device"
          /\ UNCHANGED runResult
       \/ /\ gpu' = [gpu EXCEPT !.adapterRequests = @ + 1]
          /\ RunFails("No suitable adapter found!")
    /\ UNCHANGED <<input, storage_buffer, result_buffer, compute_pipeline,
                   pendingWrites, deviceQueue, encode, mapState, callback,
                   result, invoked, processed, hostLog>>
    /\ UNCHANGED appVars

\* main.rs:32-40
RunDevice ==
    /\ runPc = "device"
    /\ \/ /\ gpu' = [gpu EXCEPT !.device = "Device", !.queue = "Queue",
                                !.deviceRequests = @ + 1]
          /\ runPc' = "storage_buffer"
          /\ UNCHANGED runResult
       \/ /\ gpu' = [gpu EXCEPT !.deviceRequests = @ + 1]
          /\ RunFails("RequestDeviceError")
    /\ UNCHANGED <<input, storage_buffer, result_buffer, compute_pipeline,
                   pendingWrites, deviceQueue, encode, mapState, callback,
                   result, invoked, processed, hostLog>>
    /\ UNCHANGED appVars

\* main.rs:46-51
RunCreateStorage ==
    /\ runPc = "storage_buffer"
    /\ storage_buffer' =
         [size |-> Len(input) * SizeOfF32,
          data |-> Zeros(Len(input) * SizeOfF32),
          usage |-> {"STORAGE", "COPY_DST", "COPY_SRC"}]
    /\ runPc' = "write_buffer"
    /\ UNCHANGED <<gpu, input, result_buffer, compute_pipeline,
                   pendingWrites, deviceQueue, encode, mapState, callback,
                   result, invoked, processed, hostLog, runResult>>
    /\ UNCHANGED appVars

\* main.rs:54
RunWriteBuffer ==
    /\ runPc = "write_buffer"
    /\ pendingWrites' = Append(pendingWrites,
         [cmd |-> "write_buffer", dst |-> "storage_buffer", offset |-> 0,
          data |-> CastToBytes(input)])
    /\ hostLog' = Append(hostLog, "write_buffer")
    /\ runPc' = "result_buffer"
    /\ UNCHANGED <<gpu, input, storage_buffer, result_buffer,
                   compute_pipeline, deviceQueue, encode, mapState, callback,
                   result, invoked, processed, runResult>>
    /\ UNCHANGED appVars

RunCreateResultShort ==
    /\ runPc = "result_buffer"
    /\ result_buffer' =
         [size |-> Len(input),
          data |-> Zeros(Len(input)),
          usage |-> {"COPY_DST", "MAP_READ"}]
    /\ runPc' = "pipeline"
    /\ UNCHANGED <<gpu, input, storage_buffer, compute_pipeline,
                   pendingWrites, deviceQueue, encode, mapState, callback,
                   result, invoked, processed, hostLog, runResult>>
    /\ UNCHANGED appVars

\* main.rs:57-62
RunCreateResult ==
    /\ runPc = "result_buffer"
    /\ result_buffer' =
         [size |-> storage_buffer.size,
          data |-> Zeros(storage_buffer.size),
          usage |-> {"COPY_DST", "MAP_READ"}]
    /\ runPc' = "pipeline"
    /\ UNCHANGED <<gpu, input, storage_buffer, compute_pipeline,
                   pendingWrites, deviceQueue, encode, mapState, callback,
                   result, invoked, processed, hostLog, runResult>>
    /\ UNCHANGED appVars

\* main.rs:65-111
RunPipeline ==
    /\ runPc = "pipeline"
    /\ compute_pipeline' = [entry_point |-> "main",
                            binding0 |-> "storage_buffer"]
    /\ runPc' = "encode"
    /\ UNCHANGED <<gpu, input, storage_buffer, result_buffer,
                   pendingWrites, deviceQueue, encode, mapState, callback,
                   result, invoked, processed, hostLog, runResult>>
    /\ UNCHANGED appVars

\* main.rs:125: input.len() as u32
WorkgroupCountShort(in) == Len(in) - 1
WorkgroupCount(in) == Len(in)

RunEncodeCopyFirst ==
    /\ runPc = "encode"
    /\ encode' =
         << [cmd |-> "copy_buffer_to_buffer", src |-> "storage_buffer",
             src_offset |-> 0, dst |-> "result_buffer", dst_offset |-> 0,
             size |-> storage_buffer.size],
            [cmd |-> "dispatch_workgroups", x |-> WorkgroupCount(input),
             y |-> 1, z |-> 1] >>
    /\ runPc' = "submit"
    /\ UNCHANGED <<gpu, input, storage_buffer, result_buffer,
                   compute_pipeline, pendingWrites, deviceQueue, mapState,
                   callback, result, invoked, processed, hostLog, runResult>>
    /\ UNCHANGED appVars

\* main.rs:114-129
RunEncode ==
    /\ runPc = "encode"
    /\ encode' =
         << [cmd |-> "dispatch_workgroups", x |-> WorkgroupCount(input),
             y |-> 1, z |-> 1],
            [cmd |-> "copy_buffer_to_buffer", src |-> "storage_buffer",
             src_offset |-> 0, dst |-> "result_buffer", dst_offset |-> 0,
             size |-> storage_buffer.size] >>
    /\ runPc' = "submit"
    /\ UNCHANGED <<gpu, input, storage_buffer, result_buffer,
                   compute_pipeline, pendingWrites, deviceQueue, mapState,
                   callback, result, invoked, processed, hostLog, runResult>>
    /\ UNCHANGED appVars

\* main.rs:132-133: the staged writes go to the device ahead of the commands
RunSubmit ==
    /\ runPc = "submit"
    /\ deviceQueue' = deviceQueue \o pendingWrites \o encode
    /\ pendingWrites' = <<>>
    /\ encode' = <<>>
    /\ hostLog' = Append(hostLog, "submit")
    /\ runPc' = "map_async"
    /\ UNCHANGED <<gpu, input, storage_buffer, result_buffer,
                   compute_pipeline, mapState, callback, result, invoked,
                   processed, runResult>>
    /\ UNCHANGED appVars

\* main.rs:136-140
RunMapAsync ==
    /\ runPc = "map_async"
    /\ mapState' = "Pending"
    /\ hostLog' = Append(hostLog, "map_async")
    /\ runPc' = "poll"
    /\ UNCHANGED <<gpu, input, storage_buffer, result_buffer,
                   compute_pipeline, pendingWrites, deviceQueue, encode,
                   callback, result, invoked, processed, runResult>>
    /\ UNCHANGED appVars

\* main.rs:141: Maintain::Wait blocks until the submitted work is done
PollReturnsAtOnce == TRUE
PollMayReturn == deviceQueue = <<>>

\* main.rs:138-141: poll resolves the pending mapping and runs its callback
RunPoll ==
    /\ runPc = "poll"
    /\ PollMayReturn
    /\ \E res \in {"Ok", "Err"} :
         /\ callback' = res
         /\ mapState' = IF res = "Ok" THEN "Mapped" ELSE "Failed"
    /\ hostLog' = Append(hostLog, "poll")
    /\ runPc' = "read"
    /\ UNCHANGED <<gpu, input, storage_buffer, result_buffer,
                   compute_pipeline, pendingWrites, deviceQueue, encode,
                   result, invoked, processed, runResult>>
    /\ UNCHANGED appVars

\* main.rs:142-144: get_mapped_range panics on a buffer that is not mapped
RunRead ==
    /\ runPc = "read"
    /\ hostLog' = Append(hostLog, "get_mapped_range")
    /\ IF mapState = "Mapped"
         THEN /\ result' = CastToF32(result_buffer.data)
              /\ runPc' = "unmap"
              /\ UNCHANGED runResult
         ELSE /\ runPc' = "panicked"
              /\ runResult' = "panic"
              /\ UNCHANGED result
    /\ UNCHANGED <<gpu, input, storage_buffer, result_buffer,
                   compute_pipeline, pendingWrites, deviceQueue, encode,
                   mapState, callback, invoked, processed>>
    /\ UNCHANGED appVars

\* main.rs:145
RunUnmap ==
    /\ runPc = "unmap"
    /\ mapState' = "Unmapped"
    /\ hostLog' = Append(hostLog, "unmap")
    /\ runPc' = "return"
    /\ UNCHANGED <<gpu, input, storage_buffer, result_buffer,
                   compute_pipeline, pendingWrites, deviceQueue, encode,
                   callback, result, invoked, processed, runResult>>
    /\ UNCHANGED appVars

\* main.rs:147
RunReturn ==
    /\ runPc = "return"
    /\ runResult' = "Ok"
    /\ runPc' = "done"
    /\ UNCHANGED <<gpu, input, storage_buffer, result_buffer,
                   compute_pipeline, pendingWrites, deviceQueue, encode,
                   mapState, callback, result, invoked, processed, hostLog>>
    /\ UNCHANGED appVars

----------------------------------------------------------------------------
(* The device executing what run submitted, in submission order *)

\* source/compute.wgsl: the transform of one element
ShaderTransform(v) == 2 * v

\* one invocation of the kernel, for workgroup id: data[id] = f(data[id])
KernelInvoke(data, id) ==
    IF id < Len(data) \div SizeOfF32
      THEN LET lo == SizeOfF32 * id + 1
               hi == SizeOfF32 * (id + 1)
               v  == F32Value(BytesWord(SubSeq(data, lo, hi)))
               b  == WordBytes(F32Bits(ShaderTransform(v)))
           IN  [i \in 1..Len(data) |->
                  IF i >= lo /\ i <= hi THEN b[i - lo + 1] ELSE data[i]]
      ELSE data

Front == deviceQueue[1]

\* main.rs:54 taking effect
DeviceWrite ==
    /\ deviceQueue # <<>>
    /\ Front.cmd = "write_buffer"
    /\ storage_buffer' =
         [storage_buffer EXCEPT !.data =
            [i \in 1..Len(@) |->
               IF i > Front.offset /\ i <= Front.offset + Len(Front.data)
                 THEN Front.data[i - Front.offset] ELSE @[i]]]
    /\ deviceQueue' = Tail(deviceQueue)
    /\ UNCHANGED <<runPc, gpu, input, result_buffer, compute_pipeline,
                   pendingWrites, encode, mapState, callback, result,
                   invoked, processed, hostLog, runResult>>
    /\ UNCHANGED appVars

\* main.rs:125 taking effect: the workgroups run one by one, in any order
DeviceInvoke(id) ==
    /\ deviceQueue # <<>>
    /\ Front.cmd = "dispatch_workgroups"
    /\ id \in 0..(Front.x - 1)
    /\ id \notin invoked
    /\ storage_buffer' = [storage_buffer EXCEPT !.data = KernelInvoke(@, id)]
    /\ invoked' = invoked \cup {id}
    /\ processed' = [i \in DOMAIN processed |->
                       IF i = id + 1 THEN processed[i] + 1 ELSE processed[i]]
    /\ UNCHANGED <<runPc, gpu, input, result_buffer, compute_pipeline,
                   pendingWrites, deviceQueue, encode, mapState, callback,
                   result, hostLog, runResult>>
    /\ UNCHANGED appVars

DeviceDispatchDone ==
    /\ deviceQueue # <<>>
    /\ Front.cmd = "dispatch_workgroups"
    /\ invoked = 0..(Front.x - 1)
    /\ invoked' = {}
    /\ deviceQueue' = Tail(deviceQueue)
    /\ UNCHANGED <<runPc, gpu, input, storage_buffer, result_buffer,
                   compute_pipeline, pendingWrites, encode, mapState,
                   callback, result, processed, hostLog, runResult>>
    /\ UNCHANGED appVars

\* main.rs:129 taking effect
DeviceCopy ==
    /\ deviceQueue # <<>>
    /\ Front.cmd = "copy_buffer_to_buffer"
    /\ result_buffer' =
         [result_buffer EXCEPT !.data =
            [i \in 1..Len(@) |->
               IF i > Front.dst_offset /\ i <= Front.dst_offset + Front.size
                 THEN storage_buffer.data[Front.src_offset + i - Front.dst_offset]
                 ELSE @[i]]]
    /\ deviceQueue' = Tail(deviceQueue)
    /\ UNCHANGED <<runPc, gpu, input, storage_buffer, compute_pipeline,
                   pendingWrites, encode, mapState, callback, result,
                   invoked, processed, hostLog, runResult>>
    /\ UNCHANGED appVars

NextRun ==
    \/ RunInstance
    \/ RunAdapter
    \/ RunDevice
    \/ RunCreateStorage
    \/ RunWriteBuffer
    \/ RunCreateResult
    \/ RunPipeline
    \/ RunEncode
    \/ RunSubmit
    \/ RunMapAsync
    \/ RunPoll
    \/ RunRead
    \/ RunUnmap
    \/ RunReturn
    \/ DeviceWrite
    \/ \E id \in 0..Len(input) : DeviceInvoke(id)
    \/ DeviceDispatchDone
    \/ DeviceCopy

----------------------------------------------------------------------------
(* The program: one of the two entry points *)

Init ==
    \/ InitApp /\ OffRun
    \/ InitRun /\ OffApp

Next == NextApp \/ NextRun

Spec == Init /\ [][Next]_vars

----------------------------------------------------------------------------
(* Properties of WgpuApp *)

Range(seq) == {seq[i] : i \in DOMAIN seq}

FrameStates == <<"Idle", "Acquired", "Encoding", "Submitted", "Presented">>

IsPrefix(a, b) == Len(a) <= Len(b) /\ a = SubSeq(b, 1, Len(a))

\* C1: once a configuration is stored, whatever sizes new, resize and render
\* have seen (0 included), the stored configuration and the one applied to
\* the surface have width >= 1 and height >= 1; after resize(0,0) the stored
\* configuration is 1 x 1.
C1_SizeAtLeastOne ==
    /\ config # NoConfig =>
         /\ config.width >= 1 /\ config.height >= 1
         /\ surface.configured.width >= 1 /\ surface.configured.height >= 1
    /\ (call.op = "resize" /\ call.size = <<0, 0>>) =>
         (config.width = 1 /\ config.height = 1)

C1_Witness ==
    /\ call.op = "resize" /\ call.size = <<0, 0>>
    /\ config.width = 1 /\ config.height = 1
    /\ history.completed

\* C2: within a render call the frame is presented at most once, only after
\* its command buffer was submitted (exactly one submission, of that frame's
\* command buffer, made before the present), and a render call that returns
\* Ok has presented its acquired frame exactly once.
C2_PresentAfterSubmit ==
    call.op = "render" =>
      /\ call.presents <= 1
      /\ Len(call.submits) <= 1
      /\ call.presents >= 1 =>
           /\ Len(call.submits) = 1
           /\ \E i, j \in DOMAIN call.trace :
                i < j /\ call.trace[i] = "Submitted"
                      /\ call.trace[j] = "Presented"
      /\ call.result = "Ok" => (call.presents = 1 /\ call.acquires = 1)
      /\ appPc = "Presented" =>
           (call.presents = 1 /\ call.submits[1] = frame.command_buffer)

C2_Witness ==
    /\ appPc = "Presented"
    /\ call.presents = 1
    /\ Len(call.submits) = 1

\* C3 as stated: a render call that ends with SurfaceLost or SurfaceOutdated
\* has reconfigured the surface once and tried the acquisition twice.
C3_ReconfigureAndRetryOnce ==
    (call.op = "render" /\ call.result \in {"Lost", "Outdated"}) =>
      (call.acquires = 2 /\ call.configures = 1)

\* C3 as amended: a render call whose acquisition fails (SurfaceLost and
\* SurfaceOutdated included) makes that one acquisition only, does not
\* reconfigure the surface, and returns the first failure to its caller as
\* the error of that call, leaving the app ready for the next call.
C3_FirstFailureReturned ==
    (call.op = "render" /\ call.result \in SurfaceErrors) =>
      /\ call.acquires = 1
      /\ call.configures = 0
      /\ appPc = "Idle"

C3_Witness ==
    /\ call.op = "render"
    /\ call.result \in {"Lost", "Outdated"}
    /\ call.acquires = 1

\* C7: a resize(w,h) made right after a resize(w,h) leaves the stored
\* configuration and the configuration applied to the surface as they were,
\* and it ends without an error like the first.
C7_ResizeIdempotent ==
    [][\A s \in Sizes \X Sizes :
         (call.op = "resize" /\ call.size = s /\ call.result = "Ok"
            /\ resize(s))
         => (config' = config /\ surface' = surface
               /\ call'.result = "Ok")]_vars

C7_Witness ==
    /\ call.op = "resize"
    /\ call.again
    /\ call.size = <<0, LargeSize>>
    /\ config.width = 1 /\ config.height = LargeSize

\* C9: a render call that acquired its frame passes Idle, Acquired, Encoding,
\* Submitted, Presented in that order, each once, and the one command buffer
\* it submits holds one render pass that clears the target and then issues
\* one draw of vertices 0..3, instances 0..1.
OnePassOneDraw(cb) ==
    /\ Cardinality({i \in DOMAIN cb : cb[i].cmd = "begin_render_pass"}) = 1
    /\ Cardinality({i \in DOMAIN cb : cb[i].cmd = "end_render_pass"}) = 1
    /\ Cardinality({i \in DOMAIN cb : cb[i].cmd = "draw"}) = 1
    /\ \E b, d, e \in DOMAIN cb :
         /\ b < d /\ d < e
         /\ cb[b].cmd = "begin_render_pass" /\ cb[b].load = "Clear"
         /\ cb[d].cmd = "draw"
         /\ cb[d].vertices = <<0, 3>> /\ cb[d].instances = <<0, 1>>
         /\ cb[e].cmd = "end_render_pass"

C9_FrameCycle ==
    call.op = "render" =>
      /\ IsPrefix(call.trace, FrameStates)
      /\ call.trace # <<>> /\ call.result = "pending" =>
           call.trace[Len(call.trace)] = appPc
      /\ (appPc = "Presented" \/ call.result = "Ok") =>
           /\ call.trace = FrameStates
           /\ Len(call.submits) = 1
           /\ OnePassOneDraw(call.submits[1])

C9_Witness ==
    /\ appPc = "Idle"
    /\ call.op = "render"
    /\ call.result = "Ok"
    /\ call.trace = FrameStates

\* C10: a render call whose acquisition fails returns the error with nothing
\* submitted, nothing presented and no frame kept, the app is back at Idle,
\* and a next render call can start (and, as the witness shows, complete).
C10_FailedFrameAbandoned ==
    (call.op = "render" /\ call.result \in SurfaceErrors) =>
      /\ appPc = "Idle"
      /\ call.submits = <<>>
      /\ call.presents = 0
      /\ frame = NoFrame
      /\ ENABLED RenderAcquire("Ok")

C10_Witness ==
    /\ history.failed
    /\ appPc = "Presented"
    /\ call.trace = FrameStates

\* C11: from the moment new has stored a configuration, the configuration
\* applied to the surface is the stored one: new and every resize call apply
\* it once, in the same call that stores it, so a render call acquires its
\* frame with applied and stored dimensions equal.
C11_AppliedIsStored ==
    /\ config # NoConfig => surface.configured = config
    /\ surface.configured # NoConfig => surface.created
    /\ call.op = "resize" => call.configures = 1
    /\ (call.op = "new" /\ call.result = "Ok") => call.configures = 1
    /\ (call.op = "render" /\ call.acquires >= 1) =>
         (surface.configured.width = config.width
            /\ surface.configured.height = config.height)

C11_Witness ==
    /\ appPc = "Acquired"
    /\ config.width # Clamp(window.width)
    /\ config.height # Clamp(window.height)
    /\ surface.configured = config

\* C12: once the app is constructed, a resize(w,h) step sets the stored
\* width and height to max(w,1), max(h,1) and changes nothing else of the
\* stored state (format, present mode, window, device, queue, pipeline); a
\* step of render changes none of the stored state; so no step replaces the
\* device, the queue or the pipeline.
Constructed == appPc \in Range(FrameStates)

RenderStep ==
    \/ \E outcome \in {"Ok"} \cup SurfaceErrors : RenderAcquire(outcome)
    \/ RenderEncode
    \/ RenderSubmit
    \/ RenderPresent
    \/ RenderReturn

C12_OnlyResizeChangesSize ==
    [][Constructed =>
         /\ device' = device /\ queue' = queue /\ pipeline' = pipeline
         /\ window' = window /\ instance' = instance /\ adapter' = adapter
         /\ config'.format = config.format
         /\ config'.present_mode = config.present_mode
         /\ \A s \in Sizes \X Sizes :
              resize(s) => (config'.width = Max(s[1], 1)
                              /\ config'.height = Max(s[2], 1))
         /\ RenderStep => (config' = config /\ surface' = surface)]_vars

C12_Witness ==
    /\ appPc = "Idle"
    /\ call.op = "resize"
    /\ call.size = <<LargeSize, 0>>
    /\ config = [width |-> LargeSize, height |-> 1,
                 format |-> "Rgba8UnormSrgb", present_mode |-> "Fifo"]
    /\ pipeline.format = "Rgba8UnormSrgb"
    /\ device = "Device" /\ queue = "Queue"
    /\ history.completed

----------------------------------------------------------------------------
(* Properties of the acquisition chain, in new and in run *)

\* C8: instance, adapter, device/queue are obtained in that order, each
\* requested at most once; when no adapter is found the constructor (and
\* run) has ended with that error, no device or queue was requested, nothing
\* after the adapter was created, and no further step is taken.
C8_NoAdapterNoDevice ==
    /\ adapter # "None" => instance
    /\ device # "None" => adapter # "None"
    /\ (device # "None") <=> (queue # "None")
    /\ config # NoConfig => device # "None"
    /\ pipeline # NoPipeline => config # NoConfig
    /\ requests.adapter <= 1 /\ requests.device <= 1
    /\ (call.op = "new" /\ call.result = "No adapter found") =>
         /\ appPc = "new_failed"
         /\ requests = [adapter |-> 1, device |-> 0]
         /\ adapter = "None" /\ device = "None" /\ queue = "None"
         /\ config = NoConfig /\ surface.configured = NoConfig
         /\ pipeline = NoPipeline
         /\ ~ENABLED NextApp
    /\ gpu.adapter # "None" => gpu.instance
    /\ gpu.device # "None" => gpu.adapter # "None"
    /\ (gpu.device # "None") <=> (gpu.queue # "None")
    /\ storage_buffer # NoBuffer => gpu.device # "None"
    /\ gpu.adapterRequests <= 1 /\ gpu.deviceRequests <= 1
    /\ runResult = "No suitable adapter found!" =>
         /\ runPc = "failed"
         /\ gpu.adapterRequests = 1 /\ gpu.deviceRequests = 0
         /\ gpu.adapter = "None" /\ gpu.device = "None" /\ gpu.queue = "None"
         /\ storage_buffer = NoBuffer /\ result_buffer = NoBuffer
         /\ compute_pipeline = NoComputePipeline
         /\ hostLog = <<>>
         /\ ~ENABLED NextRun

C8_Witness ==
    /\ call.op = "new"
    /\ call.result = "No adapter found"
    /\ instance /\ surface.created
    /\ appPc = "new_failed"

----------------------------------------------------------------------------
(* Properties of the compute job *)

Before(a, b) ==
    \A j \in DOMAIN hostLog :
       hostLog[j] = b => \E i \in 1..(j - 1) : hostLog[i] = a

\* C4: get_mapped_range is called only after submit, then map_async, then
\* poll, with the device idle and the mapping callback already called; data
\* is read only from a mapping that succeeded; unmap comes after the read,
\* and a job that finished left the buffer unmapped.
C4_ReadAfterWait ==
    /\ Before("submit", "map_async")
    /\ Before("map_async", "poll")
    /\ Before("poll", "get_mapped_range")
    /\ Before("get_mapped_range", "unmap")
    /\ "get_mapped_range" \in Range(hostLog) =>
         (callback # "none" /\ deviceQueue = <<>> /\ mapState # "Pending")
    /\ result # <<>> => callback = "Ok"
    /\ runPc = "done" => (mapState = "Unmapped" /\ result # <<>>)

C4_Witness ==
    /\ runPc = "done"
    /\ hostLog = <<"write_buffer", "submit", "map_async", "poll",
                   "get_mapped_range", "unmap">>

\* C5 as stated: when the mapping callback reports an error, the mapped
\* range is not read and the job ends with the error value MapFailed.
C5_MapFailedSurfaced ==
    callback = "Err" =>
      /\ "get_mapped_range" \notin Range(hostLog)
      /\ runPc \in {"done", "failed", "panicked"} => runResult = "MapFailed"

\* C6: a job that got its result has read back exactly as many values as the
\* input has, value i being the shader's transform of input i, each element
\* processed by exactly one invocation; the dispatch is Len(input) x 1 x 1;
\* for input [1,2,3,4] the result is [2,4,6,8].
C6_RoundTrip ==
    /\ \A c \in Range(encode) \cup Range(deviceQueue) :
         c.cmd = "dispatch_workgroups" =>
           (c.x = Len(input) /\ c.y = 1 /\ c.z = 1)
    /\ runPc \in {"unmap", "return", "done"} =>
         /\ Len(result) = Len(input)
         /\ \A i \in DOMAIN input :
              result[i] = ShaderTransform(input[i]) /\ processed[i] = 1
         /\ input = <<1, 2, 3, 4>> => result = <<2, 4, 6, 8>>

C6_Witness ==
    /\ runPc = "done"
    /\ runResult = "Ok"
    /\ input = <<1, 2, 3, 4>>
    /\ result = <<2, 4, 6, 8>>

\* C13: the storage buffer and the result buffer are two buffers, each of
\* exactly Len(input) * 4 bytes; the host writes and the kernel reach the
\* storage buffer only, so the result buffer stays as created until the copy;
\* every recorded copy goes from the storage buffer to the result buffer,
\* from offset 0 to offset 0, over the whole size of both, so no copy between
\* buffers of different size is ever recorded and none truncates or pads.
CopiesRecorded ==
    {c \in Range(encode) \cup Range(deviceQueue) :
        c.cmd = "copy_buffer_to_buffer"}

Occurrences(seq, x) == Cardinality({i \in DOMAIN seq : seq[i] = x})

Rank(c) == CASE c.cmd = "write_buffer" -> 1
             [] c.cmd = "dispatch_workgroups" -> 2
             [] c.cmd = "copy_buffer_to_buffer" -> 3

InOrder(seq) ==
    \A i, j \in DOMAIN seq : i < j => Rank(seq[i]) < Rank(seq[j])

C14_WriteDispatchCopyOrder ==
    /\ Occurrences(hostLog, "submit") <= 1
    /\ Occurrences(hostLog, "write_buffer") <= 1
    /\ Before("write_buffer", "submit")
    /\ runPc \in {"poll", "read", "unmap", "return", "done"} =>
         Occurrences(hostLog, "submit") = 1
    /\ InOrder(encode)
    /\ InOrder(deviceQueue)
    /\ "submit" \in Range(hostLog) => pendingWrites = <<>>
    /\ (deviceQueue # <<>> /\ Front.cmd = "dispatch_workgroups"
          /\ invoked = {}) =>
         storage_buffer.data = CastToBytes(input)
    /\ (deviceQueue # <<>> /\ Front.cmd = "copy_buffer_to_buffer") =>
         \A i \in DOMAIN input : processed[i] = 1
    /\ ("submit" \in Range(hostLog) /\ deviceQueue = <<>>) =>
         /\ \A i \in DOMAIN input : processed[i] = 1
         /\ result_buffer.data = storage_buffer.data

C14_Witness ==
    /\ runPc = "poll"
    /\ deviceQueue # <<>>
    /\ Front.cmd = "copy_buffer_to_buffer"
    /\ \A i \in DOMAIN input : processed[i] = 1
    /\ Len(input) >= 2
    /\ hostLog = <<"write_buffer", "submit", "map_async">>

====
